---- MODULE Spec2Model ----
(***************************************************************************)
(* A model of .circleci/build-notebooks.py: the scan of the collection     *)
(* tree into Categories (build_categories / build_collections), the        *)
(* creation of the per-category build environment and of the per-notebook  *)
(* build scripts (find_build_jobs, Category.setup_build_env,               *)
(* Notebook.create_build_script, Notebook.inject_notebook) and the driver  *)
(* that runs the scripts one after the other (main, build_artifact).       *)
(*                                                                         *)
(* Paths are strings built with the same joins as the code.  A file name   *)
(* is the tuple of its dot-separated parts, so that the glob '*.ipynb' and *)
(* rsplit('.', 1) are computed, not assumed.  A directory of the source    *)
(* tree is the tuple of the directory names that lead to it from the       *)
(* collection directory (the scan root, <<>>).                             *)
(***************************************************************************)
EXTENDS Integers, Sequences, FiniteSets, TLC

\* ---------------------------------------------------------------- bounds
MaxDepth == 2      \* deepest directory below the scan root
MaxDirs == 2       \* directories below the scan root
MaxFiles == 4      \* files in the whole source tree
MaxExit == 1       \* exit statuses range over -MaxExit .. MaxExit

\* ------------------------------------------------------ program constants
BUILD_BASE_DIR == "/tmp/nbcollection-ci-build-base-dir"
ARTIFACT_DEST_DIR == "/tmp/artifacts"
CollectionName == "jdat_notebooks"
pass_names == {"preimaging_01_mirage.ipynb-builder.sh"}
SupportFiles == <<"environment.sh", "pre-install.sh", "pre-requirements.txt", "requirements.txt">>
HelperFiles == <<"extract_metadata_from_notebook.py">>

\* ------------------------------------------------ the modelled environment
Cwd == "/repo"
DirOrder == <<"catX", "catY">>          \* directory names, in listing order
DirNames == {DirOrder[i] : i \in 1..Len(DirOrder)}
ListingOrder ==                         \* file names, in listing order
  << <<"nb1", "ipynb">>, <<"nb2", "ipynb">>, <<"preimaging_01_mirage", "ipynb">>,
     <<"requirements", "txt">>, <<"environment", "sh">> >>
SourceFiles == {ListingOrder[i] : i \in 1..Len(ListingOrder)}
CircleciFiles == {"extract_metadata_from_notebook.py"}
ExitCodes == (0 - MaxExit)..MaxExit
None == "None"

VARIABLES
  dirs,          \* the directories below the scan root
  files,         \* the files of the source tree: pairs <<directory, file name parts>>
  build_fs,      \* BUILD_BASE_DIR: build directory path -> (file name -> content)
  artifact_dirs, \* the directories that exist directly under ARTIFACT_DEST_DIR
  artifacts,     \* the artifact files completed by the build scripts (paths)
  pc,            \* position of the program
  exc,           \* the exception that is propagating or being handled, or None
  collection,    \* the Collection yielded by build_collections, or None
  ci,            \* find_build_jobs: index of the category in collection.categories
  ni,            \* find_build_jobs: index of the notebook in category.notebooks
  build_scripts, \* find_build_jobs: the build_scripts list under construction
  build_job,     \* main: the BuildJob being run, or None
  si,            \* main: index of the script in build_job.scripts
  proc,          \* build_artifact: the command of the Popen object, or None
  returncode,    \* build_artifact: what proc.poll() returns
  running,       \* the commands of the subprocesses that run
  started,       \* the commands given to Popen so far, in order
  logged         \* the messages given to logger.error, in order

vars == <<dirs, files, build_fs, artifact_dirs, artifacts, pc, exc, collection, ci, ni,
          build_scripts, build_job, si, proc, returncode, running, started, logged>>

\* ------------------------------------------------------------ path helpers
os_path_join(a, b) == a \o "/" \o b

RECURSIVE JoinParts(_, _)
JoinParts(parts, sep) ==
  IF Len(parts) = 0 THEN ""
  ELSE IF Len(parts) = 1 THEN parts[1]
  ELSE parts[1] \o sep \o JoinParts(Tail(parts), sep)

\* the name of a file, from its dot-separated parts
FileName(parts) == JoinParts(parts, ".")

\* the path of a directory of the source tree: os.path.join(root, dirname), from c_path
c_path == os_path_join(Cwd, CollectionName)
RECURSIVE DirPath(_)
DirPath(d) ==
  IF d = <<>> THEN c_path
  ELSE os_path_join(DirPath(SubSeq(d, 1, Len(d) - 1)), d[Len(d)])

\* os.path.relpath of a path below the working directory
RECURSIVE RelDirPath(_)
RelDirPath(d) ==
  IF d = <<>> THEN CollectionName
  ELSE os_path_join(RelDirPath(SubSeq(d, 1, Len(d) - 1)), d[Len(d)])

FilesOf(d) == {f \in SourceFiles : <<d, f>> \in files}
\* variant: the test looks at the directory instead of the file in it
os_path_exists_in_dir(d, filename) == d \in dirs
os_path_exists_in(d, filename) == \E f \in FilesOf(d) : FileName(f) = filename

\* ------------------------------------------------------------- the scan
Children(d) == SelectSeq(DirOrder, LAMBDA n : Append(d, n) \in dirs)

\* os.walk, top-down: a directory, then the walks of its subdirectories
RECURSIVE os_walk(_), WalkEach(_, _)
WalkEach(top, names) ==
  IF names = <<>> THEN <<>>
  ELSE os_walk(Append(top, Head(names))) \o WalkEach(top, Tail(names))
os_walk(top) == <<top>> \o WalkEach(top, Children(top))

\* glob.glob(f'{dirpath}/*.ipynb'): the names that end in .ipynb and are not hidden
MatchesIpynb(f) == Len(f) >= 2 /\ f[Len(f)] = "ipynb" /\ f[1] /= ""
glob_ipynb(d) == SelectSeq(ListingOrder, LAMBDA f : f \in FilesOf(d) /\ MatchesIpynb(f))

Notebook(d, f) ==
  [name |-> JoinParts(SubSeq(f, 1, Len(f) - 1), "."),
   filename |-> FileName(f),
   filepath |-> os_path_join(RelDirPath(d), FileName(f))]

RECURSIVE NotebooksOf(_, _)
NotebooksOf(d, fs) ==
  IF fs = <<>> THEN <<>> ELSE <<Notebook(d, Head(fs))>> \o NotebooksOf(d, Tail(fs))

Category(dirname, notebooks, dirpath) ==
  [name |-> dirname, notebooks |-> notebooks, source_dir |-> dirpath,
   build_dir |-> os_path_join(BUILD_BASE_DIR, dirname),
   artifact_dir |-> os_path_join(ARTIFACT_DEST_DIR, dirname)]

\* the directories the two nested loops of build_categories look at, in order
RECURSIVE DirpathsOf(_)
DirpathsOf(roots) ==
  IF roots = <<>> THEN <<>>
  ELSE LET root == Head(roots)
           names == Children(root)
       IN [i \in 1..Len(names) |-> Append(root, names[i])] \o DirpathsOf(Tail(roots))

\* build_categories: the Categories yielded, in order, until the generator ends
\* or raises NotImplementedError
RECURSIVE build_categories(_), ScanDirpaths(_)
ScanDirpaths(dirpaths) ==
  IF dirpaths = <<>> THEN [cats |-> <<>>, raised |-> FALSE]
  ELSE LET d == Head(dirpaths)
           notebooks == NotebooksOf(d, glob_ipynb(d))
           here == IF notebooks /= <<>>
                   THEN IF ~os_path_exists_in(d, "requirements.txt")
                        THEN [cats |-> <<>>, raised |-> TRUE]
                        ELSE [cats |-> <<Category(d[Len(d)], notebooks, DirPath(d))>>,
                              raised |-> FALSE]
                   ELSE build_categories(d)
       IN IF here.raised THEN here
          ELSE LET rest == ScanDirpaths(Tail(dirpaths))
               IN [cats |-> here.cats \o rest.cats, raised |-> rest.raised]
build_categories(start_path) == ScanDirpaths(DirpathsOf(os_walk(start_path)))

\* ------------------------------------------------------------- Init
RECURSIVE TreesOf(_)
TreesOf(k) ==
  IF k = 0 THEN {{}}
  ELSE LET prev == TreesOf(k - 1)
       IN prev \cup UNION { { t \cup {Append(p, n)} :
                               p \in {q \in t \cup {<<>>} : Len(q) < MaxDepth}, n \in DirNames }
                            : t \in prev }

RECURSIVE SubsetsUpTo(_, _)
SubsetsUpTo(S, k) ==
  IF k = 0 THEN {{}}
  ELSE LET prev == SubsetsUpTo(S, k - 1)
       IN prev \cup UNION { { T \cup {x} : x \in S } : T \in prev }

\* what an earlier run left in a build directory
StaleBuildDir ==
  ("pre-install.sh" :> [kind |-> "stale", source |-> ""])
  @@ ("setup-build-env.sh" :> [kind |-> "stale", source |-> ""])

NoBuildJob == [name |-> None, scripts |-> <<>>]
NoCollection == [name |-> None, categories |-> <<>>]
NoExc == [type |-> None, arg |-> ""]

Init ==
  /\ dirs \in TreesOf(MaxDirs)
  /\ files \in SubsetsUpTo(dirs \X SourceFiles, MaxFiles)
  /\ \E stale \in {{}, DirNames} :
       build_fs = [b \in {os_path_join(BUILD_BASE_DIR, n) : n \in stale} |-> StaleBuildDir]
  /\ artifact_dirs = {}
  /\ artifacts = {}
  /\ pc = "start"
  /\ exc = NoExc
  /\ collection = NoCollection
  /\ ci = 0
  /\ ni = 0
  /\ build_scripts = <<>>
  /\ build_job = NoBuildJob
  /\ si = 0
  /\ proc = None
  /\ returncode = None
  /\ running = {}
  /\ started = <<>>
  /\ logged = <<>>

\* ------------------------------------------------------------ the scan runs
\* shutil.rmtree of the build directories of the yielded Categories
RmTrees(fs, cats) ==
  [b \in DOMAIN fs \ {cats[i].build_dir : i \in 1..Len(cats)} |-> fs[b]]

ScanEffects(r) ==
  /\ build_fs' = RmTrees(build_fs, r.cats)
  /\ artifact_dirs' = artifact_dirs \ {r.cats[i].artifact_dir : i \in 1..Len(r.cats)}

\* build_collections: the list of the Categories of the collection is complete
\* before the Collection is yielded to find_build_jobs
BuildCollections ==
  /\ pc = "start"
  /\ LET r == build_categories(<<>>)
     IN /\ ~r.raised
        /\ ScanEffects(r)
        /\ collection' = [name |-> CollectionName, categories |-> r.cats]
  /\ ci' = 1
  /\ pc' = "find_build_jobs"
  /\ UNCHANGED <<dirs, files, artifacts, exc, ni, build_scripts, build_job, si, proc,
                 returncode, running, started, logged>>

\* build_categories raises inside the list comprehension: nothing is yielded
BuildCollectionsRaises ==
  /\ pc = "start"
  /\ LET r == build_categories(<<>>)
     IN /\ r.raised
        /\ ScanEffects(r)
  /\ exc' = [type |-> "NotImplementedError", arg |-> "Category missing Requirements File"]
  /\ pc' = "aborted"
  /\ UNCHANGED <<dirs, files, artifacts, collection, ci, ni, build_scripts, build_job, si,
                 proc, returncode, running, started, logged>>

\* ------------------------------------------------------- find_build_jobs
CurrentCategory == collection.categories[ci]

EnvSetupScript(category) ==
  [kind |-> "env_setup", build_dir |-> category.build_dir,
   artifact_dir |-> category.artifact_dir]

SourceDirOf(category) == CHOOSE d \in dirs : DirPath(d) = category.source_dir

\* variant: the copy is not guarded by os.path.exists
RECURSIVE CopiedFrom_unguarded(_, _, _)
CopiedFrom_unguarded(names, source_dir, existing) ==
  IF names = <<>> THEN <<>>
  ELSE (Head(names) :> [kind |-> "copy", source |-> os_path_join(source_dir, Head(names))])
       @@ CopiedFrom_unguarded(Tail(names), source_dir, existing)

\* the files setup_build_env copies: those of the fixed lists that exist at the source
RECURSIVE CopiedFrom(_, _, _)
CopiedFrom(names, source_dir, existing) ==
  IF names = <<>> THEN <<>>
  ELSE LET filename == Head(names)
           rest == CopiedFrom(Tail(names), source_dir, existing)
       IN IF filename \in existing
          THEN (filename :> [kind |-> "copy", source |-> os_path_join(source_dir, filename)])
               @@ rest
          ELSE rest

setup_build_env(category) ==
  LET existing == {FileName(f) : f \in FilesOf(SourceDirOf(category))}
  IN CopiedFrom(HelperFiles, os_path_join(Cwd, ".circleci"), CircleciFiles)
     @@ CopiedFrom(SupportFiles, category.source_dir, existing)
     @@ ("setup-build-env.sh" :> EnvSetupScript(category))

SetupBuildEnv ==
  /\ pc = "find_build_jobs"
  /\ ci <= Len(collection.categories)
  /\ CurrentCategory.build_dir \notin DOMAIN build_fs
  /\ CurrentCategory.artifact_dir \notin artifact_dirs
  /\ build_fs' = (CurrentCategory.build_dir :> setup_build_env(CurrentCategory)) @@ build_fs
  /\ artifact_dirs' = artifact_dirs \cup {CurrentCategory.artifact_dir}
  /\ build_scripts' = <<>>
  /\ ni' = 1
  /\ pc' = "create_scripts"
  /\ UNCHANGED <<dirs, files, artifacts, exc, collection, ci, build_job, si, proc,
                 returncode, running, started, logged>>

\* os.makedirs raises FileExistsError: of the build directory, or of the artifact
\* directory after the build directory was made
SetupBuildEnvRaises ==
  /\ pc = "find_build_jobs"
  /\ ci <= Len(collection.categories)
  /\ \/ CurrentCategory.build_dir \in DOMAIN build_fs
     \/ CurrentCategory.artifact_dir \in artifact_dirs
  /\ build_fs' = IF CurrentCategory.build_dir \in DOMAIN build_fs THEN build_fs
                 ELSE (CurrentCategory.build_dir :> <<>>) @@ build_fs
  /\ exc' = [type |-> "FileExistsError",
             arg |-> IF CurrentCategory.build_dir \in DOMAIN build_fs
                     THEN CurrentCategory.build_dir ELSE CurrentCategory.artifact_dir]
  /\ pc' = "aborted"
  /\ UNCHANGED <<dirs, files, artifact_dirs, artifacts, collection, ci, ni, build_scripts,
                 build_job, si, proc, returncode, running, started, logged>>

BuilderName(filename) == filename \o "-builder.sh"

\* the paths create_build_script puts in the script it writes
metadata_path(categories, artifact_dir, filename) ==
  artifact_dir \o "/" \o JoinParts(categories, "/") \o "/" \o filename \o ".metadata.json"
\* variant: the path is not namespaced by the categories
html_path_flat(categories, artifact_dir, filename) ==
  artifact_dir \o "/" \o filename \o ".html"
html_path(categories, artifact_dir, filename) ==
  artifact_dir \o "/" \o JoinParts(categories, "/") \o "/" \o filename \o ".html"

create_build_script(notebook, categories, build_dir, artifact_dir) ==
  [kind |-> "build_script", build_dir |-> build_dir, filename |-> notebook.filename,
   output_dir |-> artifact_dir \o "/" \o JoinParts(categories, "/"),
   metadata_path |-> metadata_path(categories, artifact_dir, notebook.filename),
   html_path |-> html_path(categories, artifact_dir, notebook.filename)]

inject_notebook(notebook) == [kind |-> "copy", source |-> notebook.filepath]

\* one turn of the loop over category.notebooks
CreateBuildScript ==
  /\ pc = "create_scripts"
  /\ ni <= Len(CurrentCategory.notebooks)
  /\ LET category == CurrentCategory
         notebook == category.notebooks[ni]
         script == create_build_script(notebook, <<collection.name, category.name>>,
                                       category.build_dir, category.artifact_dir)
     IN /\ build_fs' = [build_fs EXCEPT ![category.build_dir] =
                           (notebook.filename :> inject_notebook(notebook))
                           @@ (BuilderName(notebook.filename) :> script) @@ @]
        /\ build_scripts' = Append(build_scripts,
                                   os_path_join(category.build_dir, BuilderName(notebook.filename)))
  /\ ni' = ni + 1
  /\ UNCHANGED <<dirs, files, artifact_dirs, artifacts, pc, exc, collection, ci, build_job,
                 si, proc, returncode, running, started, logged>>

YieldBuildJob ==
  /\ pc = "create_scripts"
  /\ ni > Len(CurrentCategory.notebooks)
  /\ build_job' = [name |-> CurrentCategory, scripts |-> build_scripts]
  /\ si' = 1
  /\ pc' = "scripts"
  /\ UNCHANGED <<dirs, files, build_fs, artifact_dirs, artifacts, exc, collection, ci, ni,
                 build_scripts, proc, returncode, running, started, logged>>

\* ------------------------------------------------------------------ main
\* os.path.basename of a script path
os_path_basename(path) ==
  CHOOSE n \in {BuilderName(FileName(f)) : f \in SourceFiles} :
    \E b \in DirNames : os_path_join(os_path_join(BUILD_BASE_DIR, b), n) = path

CurrentScript == build_job.scripts[si]
Command(script) == "bash " \o script

SkipScript ==
  /\ pc = "scripts"
  /\ si <= Len(build_job.scripts)
  /\ os_path_basename(CurrentScript) \in pass_names
  /\ si' = si + 1
  /\ UNCHANGED <<dirs, files, build_fs, artifact_dirs, artifacts, pc, exc, collection, ci,
                 ni, build_scripts, build_job, proc, returncode, running, started, logged>>

\* variant: main does not consult pass_names
Popen_unfiltered ==
  /\ pc = "scripts"
  /\ si <= Len(build_job.scripts)
  /\ proc' = Command(CurrentScript)
  /\ returncode' = <<>>
  /\ running' = running \cup {Command(CurrentScript)}
  /\ started' = Append(started, Command(CurrentScript))
  /\ pc' = "poll"
  /\ UNCHANGED <<dirs, files, build_fs, artifact_dirs, artifacts, exc, collection, ci, ni,
                 build_scripts, build_job, si, logged>>

\* build_artifact: subprocess.Popen(cmd, shell=True)
Popen ==
  /\ pc = "scripts"
  /\ si <= Len(build_job.scripts)
  /\ os_path_basename(CurrentScript) \notin pass_names
  /\ proc' = Command(CurrentScript)
  /\ returncode' = <<>>
  /\ running' = running \cup {Command(CurrentScript)}
  /\ started' = Append(started, Command(CurrentScript))
  /\ pc' = "poll"
  /\ UNCHANGED <<dirs, files, build_fs, artifact_dirs, artifacts, exc, collection, ci, ni,
                 build_scripts, build_job, si, logged>>

\* while proc.poll() is None: time.sleep(.1) -- one turn of the loop, after which
\* the driver is back at the test
PollNone ==
  /\ pc = "poll"
  /\ returncode = <<>>
  /\ pc' = "poll"
  /\ UNCHANGED <<dirs, files, build_fs, artifact_dirs, artifacts, exc, collection, ci, ni,
                 build_scripts, build_job, si, proc, returncode, running, started, logged>>

\* variant: every status other than 0 is a failure
IsBuildFailure_nonzero(status) == status /= 0
IsBuildFailure(status) == status > 0

\* variant: build_artifact does not wait for the exit status
BuildArtifactReturns_nowait ==
  /\ pc = "poll"
  /\ returncode = <<>> \/ ~IsBuildFailure(returncode[1])
  /\ proc' = None
  /\ returncode' = <<>>
  /\ si' = si + 1
  /\ pc' = "scripts"
  /\ UNCHANGED <<dirs, files, build_fs, artifact_dirs, artifacts, exc, collection, ci, ni,
                 build_scripts, build_job, running, started, logged>>

BuildArtifactReturns ==
  /\ pc = "poll"
  /\ returncode /= <<>>
  /\ ~IsBuildFailure(returncode[1])
  /\ proc' = None
  /\ returncode' = <<>>
  /\ si' = si + 1
  /\ pc' = "scripts"
  /\ UNCHANGED <<dirs, files, build_fs, artifact_dirs, artifacts, exc, collection, ci, ni,
                 build_scripts, build_job, running, started, logged>>

BuildErrorOf(status) ==
  [type |-> "BuildError", arg |-> "Process Exit Code[" \o ToString(status) \o "]"]

BuildArtifactRaises ==
  /\ pc = "poll"
  /\ returncode /= <<>>
  /\ IsBuildFailure(returncode[1])
  /\ exc' = BuildErrorOf(returncode[1])
  /\ proc' = None
  /\ returncode' = <<>>
  /\ pc' = "except"
  /\ UNCHANGED <<dirs, files, build_fs, artifact_dirs, artifacts, collection, ci, ni,
                 build_scripts, build_job, si, running, started, logged>>

ErrorMessage(script) == "Unable to build " \o script

\* except BuildError as err: logger.error(...)
LogError ==
  /\ pc = "except"
  /\ logged' = Append(logged, ErrorMessage(CurrentScript))
  /\ pc' = "pdb"
  /\ UNCHANGED <<dirs, files, build_fs, artifact_dirs, artifacts, exc, collection, ci, ni,
                 build_scripts, build_job, si, proc, returncode, running, started>>

\* pdb.set_trace(): the debugger is left with 'continue' ...
PdbContinue ==
  /\ pc = "pdb"
  /\ exc' = NoExc
  /\ si' = si + 1
  /\ pc' = "scripts"
  /\ UNCHANGED <<dirs, files, build_fs, artifact_dirs, artifacts, collection, ci, ni,
                 build_scripts, build_job, proc, returncode, running, started, logged>>

\* ... or with 'quit' (or the end of its input), which raises BdbQuit
PdbQuit ==
  /\ pc = "pdb"
  /\ exc' = [type |-> "BdbQuit", arg |-> ""]
  /\ pc' = "aborted"
  /\ UNCHANGED <<dirs, files, build_fs, artifact_dirs, artifacts, collection, ci, ni,
                 build_scripts, build_job, si, proc, returncode, running, started, logged>>

\* the scripts of the BuildJob are exhausted: find_build_jobs is resumed
NextBuildJob ==
  /\ pc = "scripts"
  /\ si > Len(build_job.scripts)
  /\ ci' = ci + 1
  /\ pc' = "find_build_jobs"
  /\ UNCHANGED <<dirs, files, build_fs, artifact_dirs, artifacts, exc, collection, ni,
                 build_scripts, build_job, si, proc, returncode, running, started, logged>>

\* the generators are exhausted: main returns
MainReturns ==
  /\ pc = "find_build_jobs"
  /\ ci > Len(collection.categories)
  /\ pc' = "done"
  /\ UNCHANGED <<dirs, files, build_fs, artifact_dirs, artifacts, exc, collection, ci, ni,
                 build_scripts, build_job, si, proc, returncode, running, started, logged>>

\* ----------------------------------------------------- the subprocesses
\* the script file a command runs
ScriptFileOf(cmd) ==
  CHOOSE bn \in {<<b, n>> : b \in DOMAIN build_fs,
                            n \in {BuilderName(FileName(f)) : f \in SourceFiles}} :
    Command(os_path_join(bn[1], bn[2])) = cmd

\* the artifacts a run of the generated script completes: with 'set -e' it exits 0
\* only after both tools wrote their output at the paths in the script; a run that
\* fails or is killed completes none
ScriptOutcomes(script, status) ==
  IF status = 0 THEN {{script.metadata_path, script.html_path}}
  ELSE {{}}

ProcessExits ==
  \E cmd \in running, status \in ExitCodes :
    LET bn == ScriptFileOf(cmd)
        script == build_fs[bn[1]][bn[2]]
    IN /\ \E written \in ScriptOutcomes(script, status) : artifacts' = artifacts \cup written
       /\ running' = running \ {cmd}
       /\ returncode' = IF proc = cmd THEN <<status>> ELSE returncode
       /\ UNCHANGED <<dirs, files, build_fs, artifact_dirs, pc, exc, collection, ci, ni,
                      build_scripts, build_job, si, proc, started, logged>>

Next ==
  \/ BuildCollections
  \/ BuildCollectionsRaises
  \/ SetupBuildEnv
  \/ SetupBuildEnvRaises
  \/ CreateBuildScript
  \/ YieldBuildJob
  \/ SkipScript
  \/ Popen
  \/ PollNone
  \/ BuildArtifactReturns
  \/ BuildArtifactRaises
  \/ LogError
  \/ PdbContinue
  \/ PdbQuit
  \/ NextBuildJob
  \/ MainReturns
  \/ ProcessExits

Spec == Init /\ [][Next]_vars

\* ===================================================================
\* Properties
\* ===================================================================
Scanned == collection /= NoCollection
Categories == collection.categories
HasNotebooks(d) == glob_ipynb(d) /= <<>>
HasRequirements(d) == <<d, <<"requirements", "txt">>>> \in files
ProperAncestors(d) == {SubSeq(d, 1, k) : k \in 1..(Len(d) - 1)}
IndicesOf(d) == {i \in 1..Len(Categories) : Categories[i].source_dir = DirPath(d)}

\* the build scripts on disk: pairs <<build directory, file name>>
ScriptFiles ==
  UNION { { <<b, n>> : n \in {m \in DOMAIN build_fs[b] : build_fs[b][m].kind = "build_script"} }
          : b \in DOMAIN build_fs }

\* the BuildJob of category i has been yielded by find_build_jobs
JobPhase == pc \in {"scripts", "poll", "except", "pdb"}
Yielded(i) == i < ci \/ (i = ci /\ JobPhase)

IsSkipCommand(cmd) ==
  \E b \in DirNames, n \in pass_names :
    cmd = Command(os_path_join(os_path_join(BUILD_BASE_DIR, b), n))

\* ------------------------------------------------------------------ C1
\* C1 (as claimed): after a scan that does not raise, every directory below the
\* scan root that holds notebooks and requirements.txt and is reached through
\* directories without notebooks has exactly one Category in the yielded
\* sequence, and that Category lists the directory's notebooks.
C1_ExactlyOneCategory ==
  Scanned =>
    \A d \in dirs :
      (HasNotebooks(d) /\ HasRequirements(d) /\ \A a \in ProperAncestors(d) : ~HasNotebooks(a))
        => /\ Cardinality(IndicesOf(d)) = 1
           /\ \A i \in IndicesOf(d) : Categories[i].notebooks = NotebooksOf(d, glob_ipynb(d))

\* ------------------------------------------------------------------ C2
\* C2 (as claimed): no Category is yielded for a directory that lies beneath a
\* directory that holds notebooks.
C2_NoCategoryBeneathCategory ==
  Scanned =>
    \A d \in dirs :
      (\E a \in ProperAncestors(d) : HasNotebooks(a)) => IndicesOf(d) = {}

\* ------------------------------------------------------------------ C3
FaultyDirs == {d \in dirs : HasNotebooks(d) /\ ~HasRequirements(d)}

RangeOf(seq) == {seq[i] : i \in 1..Len(seq)}

BuildDirComplete(category) ==
  /\ category.build_dir \in DOMAIN build_fs
  /\ LET b == build_fs[category.build_dir]
         d == SourceDirOf(category)
         N == Len(category.notebooks)
         scripts == {n \in DOMAIN b : b[n].kind = "build_script"}
     IN /\ {n \in DOMAIN b : b[n].kind = "env_setup"} = {"setup-build-env.sh"}
        /\ N = Cardinality({f \in FilesOf(d) : f[Len(f)] = "ipynb"})
        /\ Cardinality(scripts) = N
        /\ scripts = {BuilderName(category.notebooks[i].filename) : i \in 1..N}
        /\ \A i \in 1..N :
             /\ category.notebooks[i].filename \in DOMAIN b
             /\ b[category.notebooks[i].filename] =
                  [kind |-> "copy", source |-> category.notebooks[i].filepath]
        /\ \A f \in RangeOf(SupportFiles) :
             /\ f \in DOMAIN b <=> os_path_exists_in(d, f)
             /\ f \in DOMAIN b =>
                  b[f] = [kind |-> "copy", source |-> os_path_join(category.source_dir, f)]

\* C4: once the BuildJob of a Category with N notebooks is yielded, its build
\* directory holds one setup-build-env.sh, the N scripts '<filename>-builder.sh'
\* (the BuildJob lists their paths in notebook order), a copy of each notebook,
\* and a copy of exactly those support files that exist in the source directory.
C4_BuildDirContents ==
  /\ Scanned => \A i \in 1..Len(Categories) : Yielded(i) => BuildDirComplete(Categories[i])
  /\ JobPhase =>
       /\ build_job.name = CurrentCategory
       /\ build_job.scripts =
            [i \in 1..Len(CurrentCategory.notebooks) |->
               os_path_join(CurrentCategory.build_dir,
                            BuilderName(CurrentCategory.notebooks[i].filename))]

C4_Witness ==
  /\ pc = "scripts"
  /\ Len(build_job.scripts) = 2
  /\ "environment.sh" \in DOMAIN build_fs[build_job.name.build_dir]
  /\ "pre-install.sh" \notin DOMAIN build_fs[build_job.name.build_dir]

\* ------------------------------------------------------------------ C5
CategoryNameOf(b) == (CHOOSE c \in RangeOf(Categories) : c.build_dir = b).name

\* C5 (as claimed): every generated script writes its artifacts at
\* ARTIFACT_DEST_DIR/<collection name>/<category name>/<filename>.html and
\* .metadata.json, and every artifact written is at such a path.
C5_ArtifactPaths ==
  /\ \A s \in ScriptFiles :
       LET script == build_fs[s[1]][s[2]]
           where == os_path_join(os_path_join(ARTIFACT_DEST_DIR, collection.name),
                                 CategoryNameOf(s[1]))
       IN /\ script.html_path = os_path_join(where, script.filename \o ".html")
          /\ script.metadata_path = os_path_join(where, script.filename \o ".metadata.json")
  /\ \A a \in artifacts :
       \E c \in DirNames, f \in SourceFiles, ext \in {".html", ".metadata.json"} :
         a = os_path_join(os_path_join(os_path_join(ARTIFACT_DEST_DIR, CollectionName), c),
                          FileName(f) \o ext)

\* ------------------------------------------------------------------ C6
\* the triples the path function is applied to
TripleCollections == {CollectionName, "catX"}
Triples == TripleCollections \X DirNames \X {FileName(f) : f \in {g \in SourceFiles : MatchesIpynb(g)}}
HtmlOf(t) == html_path(<<t[1], t[2]>>, os_path_join(ARTIFACT_DEST_DIR, t[2]), t[3])
MetadataOf(t) == metadata_path(<<t[1], t[2]>>, os_path_join(ARTIFACT_DEST_DIR, t[2]), t[3])

\* the path function separates the triples that differ in collection or category
TriplePathsDistinct ==
  \A t1 \in Triples, t2 \in Triples :
    /\ HtmlOf(t1) /= MetadataOf(t2)
    /\ (t1[1] /= t2[1] \/ t1[2] /= t2[2]) =>
         HtmlOf(t1) /= HtmlOf(t2) /\ MetadataOf(t1) /= MetadataOf(t2)

\* C6: two triples (collection, category, notebook) that differ in the collection
\* or in the category name get different HTML paths and different metadata paths,
\* also with the same notebook file name, and no HTML path is a metadata path;
\* the same holds of the paths in the scripts that are on disk.
C6_NoPathCollision ==
  /\ TriplePathsDistinct
  /\ \A s1 \in ScriptFiles, s2 \in ScriptFiles :
       LET a == build_fs[s1[1]][s1[2]]
           b == build_fs[s2[1]][s2[2]]
       IN /\ a.html_path /= b.metadata_path
          /\ s1 /= s2 => a.html_path /= b.html_path /\ a.metadata_path /= b.metadata_path

\* two categories with a notebook of the same file name have their scripts on disk
C6_Witness ==
  \E s1 \in ScriptFiles, s2 \in ScriptFiles : s1[1] /= s2[1] /\ s1[2] = s2[2]

\* ------------------------------------------------------------------ C7
\* C7: a script whose file name is in pass_names is never given to Popen and none
\* of its artifacts is ever written, although the script and the notebook copy
\* are in the build directory; when main returns, every other generated script
\* has been given to Popen.
C7_SkipList ==
  /\ \A i \in 1..Len(started) : ~IsSkipCommand(started[i])
  /\ \A c \in running : ~IsSkipCommand(c)
  /\ \A s \in ScriptFiles :
       s[2] \in pass_names =>
         /\ build_fs[s[1]][s[2]].html_path \notin artifacts
         /\ build_fs[s[1]][s[2]].metadata_path \notin artifacts
  /\ Scanned =>
       \A i \in 1..Len(Categories) : Yielded(i) =>
         \A k \in 1..Len(Categories[i].notebooks) :
           /\ <<Categories[i].build_dir, BuilderName(Categories[i].notebooks[k].filename)>>
                \in ScriptFiles
           /\ Categories[i].notebooks[k].filename \in DOMAIN build_fs[Categories[i].build_dir]
  /\ pc = "done" =>
       \A s \in ScriptFiles :
         s[2] \notin pass_names => Command(os_path_join(s[1], s[2])) \in RangeOf(started)

\* main returned, a skipped script is on disk next to one that ran and left artifacts
C7_Witness ==
  /\ pc = "done"
  /\ \E s \in ScriptFiles :
       /\ s[2] \in pass_names
       /\ "preimaging_01_mirage.ipynb" \in DOMAIN build_fs[s[1]]
       /\ \E r \in ScriptFiles :
            /\ r[1] = s[1] /\ r[2] \notin pass_names
            /\ build_fs[r[1]][r[2]].html_path \in artifacts

\* ------------------------------------------------------------------ C8
\* C8: when the exit status is available, a status > 0 raises the BuildError
\* that carries it and main then logs 'Unable to build <script>'; a status of 0
\* or below raises nothing and logs nothing; nothing else is ever logged.
C8_ExitStatusClassification ==
  [][ /\ (pc = "poll" /\ returncode /= <<>> /\ returncode[1] > 0) =>
           /\ pc' = "except"
           /\ exc' = [type |-> "BuildError",
                      arg |-> "Process Exit Code[" \o ToString(returncode[1]) \o "]"]
           /\ logged' = logged
      /\ (pc = "poll" /\ returncode /= <<>> /\ returncode[1] <= 0) =>
           /\ pc' = "scripts" /\ si' = si + 1
           /\ exc' = exc /\ exc = NoExc
           /\ logged' = logged
      /\ pc = "except" =>
           /\ logged' = Append(logged, "Unable to build " \o build_job.scripts[si])
           /\ exc.type = "BuildError"
      /\ logged' /= logged => (pc = "except" /\ exc.type = "BuildError")
      /\ (exc' /= exc /\ exc'.type = "BuildError") =>
           (pc = "poll" /\ returncode /= <<>> /\ returncode[1] > 0)
    ]_vars

\* a first script was killed by a signal and passed without a log entry, a second
\* one exited with status 1 and was logged
C8_Witness ==
  /\ pc = "pdb"
  /\ Len(started) = 2
  /\ si = 2
  /\ exc = [type |-> "BuildError", arg |-> "Process Exit Code[1]"]
  /\ logged = <<"Unable to build /tmp/nbcollection-ci-build-base-dir/catX/nb2.ipynb-builder.sh">>

\* ------------------------------------------------------------------ C9
NotSkipped(script) == os_path_basename(script) \notin pass_names
CommandsOf(scripts) == [i \in 1..Len(scripts) |-> Command(scripts[i])]
StartedOfJob ==
  SelectSeq(started, LAMBDA c : \E i \in 1..Len(build_job.scripts) : c = Command(build_job.scripts[i]))
ReachedScripts ==
  SubSeq(build_job.scripts, 1,
         IF pc \in {"poll", "except", "pdb"} THEN si
         ELSE IF si - 1 <= Len(build_job.scripts) THEN si - 1 ELSE Len(build_job.scripts))

C9_Inv ==
  /\ Cardinality(running) <= 1
  /\ running /= {} => (pc = "poll" /\ running = {proc} /\ returncode = <<>>)
  /\ JobPhase => StartedOfJob = CommandsOf(SelectSeq(ReachedScripts, NotSkipped))

C9_Step ==
  /\ started' /= started =>
       /\ running = {}
       /\ proc = None
       /\ pc = "scripts"
       /\ started' = Append(started, Command(build_job.scripts[si]))
       /\ BuildDirComplete(build_job.name)
  /\ (running /= {} /\ running' = running) => started' = started

\* C9: at most one subprocess runs at any time; a script is started only when
\* the exit status of the previous one is available; the scripts of a BuildJob
\* start in the order of the list; the build directory of the category is
\* complete before its first script starts; and while a subprocess keeps
\* running no other script is started.
C9_Sequential == [](C9_Inv) /\ [][C9_Step]_vars

\* the second script of a BuildJob is running after the first one has exited
C9_Witness ==
  /\ Len(started) = 2
  /\ running /= {}
  /\ si = 2
  /\ pc = "poll"

\* ------------------------------------------------------------------ C10
NotebookDirs == {d \in dirs : HasNotebooks(d)}
DistinctBasenames == \A d \in NotebookDirs, e \in NotebookDirs : d /= e => d[Len(d)] /= e[Len(e)]

\* C10 (as claimed): when the notebook directories have pairwise distinct
\* basenames, the Categories given to find_build_jobs have pairwise distinct
\* build and artifact directories and setup_build_env never raises
\* FileExistsError.
C10_NoDirectoryClash ==
  DistinctBasenames =>
    /\ Scanned =>
         \A i \in 1..Len(Categories), j \in 1..Len(Categories) :
           i /= j => /\ Categories[i].build_dir /= Categories[j].build_dir
                     /\ Categories[i].artifact_dir /= Categories[j].artifact_dir
    /\ ~(pc = "aborted" /\ exc.type = "FileExistsError")
====
